---- MODULE Spec2Model ----
(***************************************************************************)
(* Model of the Decart video provider                                      *)
(* (src/DecartVideoProcessor_TaskSpec.js): the submit operation run(), the *)
(* poll operation result(), and the single-video and batch pipelines.      *)
(*                                                                         *)
(* Strings whose content the code inspects (prompts) are run-length        *)
(* encoded sequences of chunks [ch, n]; error messages are sequences of    *)
(* string parts, the concatenation of which is the JavaScript message.     *)
(***************************************************************************)
EXTENDS Integers, Sequences, FiniteSets, TLC

VARIABLES apiKey, now, runs, polls, net

vars == <<apiKey, now, runs, polls, net>>

(***************************************************************************)
(* Bounds of the model.                                                    *)
(***************************************************************************)
\* number of run() calls a behaviour records
MaxRuns == 2
\* number of result() invocations a behaviour holds (they may overlap)
MaxPolls == 1
\* largest value of the millisecond clock
MaxClock == 1

(***************************************************************************)
(* DECART_CONFIG                                                           *)
(***************************************************************************)
maxFileSizeMB == 100

maxPromptLength == 1000

BytesPerMB == 1048576

supportedFormats == <<"mp4", "avi", "mov", "mkv", "webm">>

orientations ==
  [landscape |-> [width |-> 1280, height |-> 704],
   portrait |-> [width |-> 704, height |-> 1280]]

(***************************************************************************)
(* JavaScript values.                                                      *)
(***************************************************************************)
Null == "<null>"

Undefined == "<undefined>"

\* !!v for the string-or-null values of the model
Truthy(v) == v \notin {Null, Undefined, ""}

\* a run of n copies of the character c
Chunk(c, n) == [ch |-> c, n |-> n]

RECURSIVE StrLen(_)
\* String.prototype.length
StrLen(s) == IF s = <<>> THEN 0 ELSE Head(s).n + StrLen(Tail(s))

IsSpace(c) == c = " "

RECURSIVE TrimStart(_)
TrimStart(s) ==
  IF s = <<>> THEN <<>>
  ELSE IF IsSpace(Head(s).ch) THEN TrimStart(Tail(s)) ELSE s

RECURSIVE TrimEnd(_)
TrimEnd(s) ==
  IF s = <<>> THEN <<>>
  ELSE IF IsSpace(s[Len(s)].ch) THEN TrimEnd(SubSeq(s, 1, Len(s) - 1)) ELSE s

\* String.prototype.trim
Trim(s) == TrimEnd(TrimStart(s))

\* String.prototype.toLowerCase on the extensions of the model
ToLowerCase(s) ==
  CASE s = "MP4" -> "mp4"
    [] s = "MOV" -> "mov"
    [] s = "Mkv" -> "mkv"
    [] OTHER -> s

\* Array.prototype.includes
Includes(arr, v) == \E k \in 1..Len(arr) : arr[k] = v

(***************************************************************************)
(* Requests (DecartVideoInput | DecartBatchInput).                         *)
(***************************************************************************)
NoFile == [missing |-> TRUE]

HasFile(f) == "signedUrl" \in DOMAIN f

File(url, size, name) ==
  [signedUrl |-> url, size |-> size, originalName |-> name]

\* "clip.mov", 40 MB
ClipMov == File("https://store/clip.mov", 40 * BytesPerMB, <<"clip", "mov">>)

\* "CLIP.MP4", exactly 100 MB
ClipMP4 == File("https://store/CLIP.MP4", 100 * BytesPerMB, <<"CLIP", "MP4">>)

SingleInput(code, file, prompt, orientation) ==
  [type |-> "video-to-video", modelCode |-> code, file |-> file,
   prompt |-> prompt, orientation |-> orientation]

BatchInput(code, file, prompts, orientation, hasCsv) ==
  [type |-> "batch-video-processing", modelCode |-> code, videoFile |-> file,
   prompts |-> prompts, orientation |-> orientation, hasCsv |-> hasCsv]

\* result() called without its second argument
NoInput == [type |-> Undefined]

IsBatch(input) == input.type = "batch-video-processing"

Sp == Chunk(" ", 1)

\* " robot"
PromptRobot == <<Sp, Chunk("r", 5)>>

\* "tiger "
PromptTiger == <<Chunk("t", 5), Sp>>

\* "elf"
PromptElf == <<Chunk("e", 3)>>

\* "  "
PromptBlank == <<Chunk(" ", 2)>>

ValidSingle == SingleInput("DecartVideo", ClipMov, PromptRobot, "portrait")

LandscapeSingle ==
  SingleInput("DecartVideo", ClipMP4, PromptTiger, "landscape")

ValidBatch ==
  BatchInput("DecartVideo", ClipMP4, <<PromptRobot, PromptTiger>>,
             "landscape", TRUE)

\* rejected by run(): orientation outside the enum
SquareSingle == SingleInput("DecartVideo", ClipMov, PromptElf, "square")

\* rejected by run(): a prompt that is empty after trimming
BlankBatch ==
  BatchInput("DecartVideo", ClipMov, <<PromptElf, PromptBlank, PromptTiger>>,
             "portrait", TRUE)

\* rejected by run(): no signed URL
UnsignedSingle ==
  SingleInput("DecartVideo", File(Null, 40 * BytesPerMB, <<"clip", "mov">>),
              PromptElf, "landscape")

Requests ==
  {ValidSingle, LandscapeSingle, ValidBatch, SquareSingle, BlankBatch,
   UnsignedSingle}

(***************************************************************************)
(* Validation.                                                             *)
(***************************************************************************)
Valid == [valid |-> TRUE]

Invalid(msg) == [valid |-> FALSE, error |-> msg]

\* (size / (1024*1024)).toFixed(1), as the parts of the decimal numeral
ToFixed1(size) ==
  LET tenths == (size \div BytesPerMB) * 10
                + ((size % BytesPerMB) * 20 + BytesPerMB) \div (2 * BytesPerMB)
  IN <<ToString(tenths \div 10), ".", ToString(tenths % 10)>>

\* originalName.split('.').pop()?.toLowerCase()
FileExtension(name) ==
  IF name = <<>> THEN Undefined ELSE ToLowerCase(name[Len(name)])

\* a validator that looks at the orientation before the prompt
validateVideoInputOrientationFirst(input) ==
  IF input.modelCode # "DecartVideo"
  THEN Invalid(<<"Invalid model code: ", input.modelCode,
                 ". Expected: DecartVideo">>)
  ELSE IF ~HasFile(input.file) \/ ~Truthy(input.file.signedUrl)
  THEN Invalid(<<"Video file with signed URL required">>)
  ELSE IF input.file.size > maxFileSizeMB * BytesPerMB
  THEN Invalid(<<"File too large (">> \o ToFixed1(input.file.size)
               \o <<"MB max ", ToString(maxFileSizeMB), "MB)">>)
  ELSE IF ~Truthy(FileExtension(input.file.originalName))
          \/ ~Includes(supportedFormats, FileExtension(input.file.originalName))
  THEN Invalid(<<"Unsupported file type: ",
                 FileExtension(input.file.originalName),
                 ". Allowed: mp4, avi, mov, mkv, webm">>)
  ELSE IF ~Includes(<<"landscape", "portrait">>, input.orientation)
  THEN Invalid(<<"Orientation must be either \"landscape\" or \"portrait\"">>)
  ELSE IF input.prompt = <<>> \/ StrLen(Trim(input.prompt)) = 0
  THEN Invalid(<<"Prompt is required for video transformation">>)
  ELSE IF StrLen(input.prompt) > maxPromptLength
  THEN Invalid(<<"Prompt too long (max ", ToString(maxPromptLength),
                 " chars)">>)
  ELSE Valid

validateVideoInput(input) ==
  IF input.modelCode # "DecartVideo"
  THEN Invalid(<<"Invalid model code: ", input.modelCode,
                 ". Expected: DecartVideo">>)
  ELSE IF ~HasFile(input.file) \/ ~Truthy(input.file.signedUrl)
  THEN Invalid(<<"Video file with signed URL required">>)
  ELSE IF input.file.size > maxFileSizeMB * BytesPerMB
  THEN Invalid(<<"File too large (">> \o ToFixed1(input.file.size)
               \o <<"MB max ", ToString(maxFileSizeMB), "MB)">>)
  ELSE IF ~Truthy(FileExtension(input.file.originalName))
          \/ ~Includes(supportedFormats, FileExtension(input.file.originalName))
  THEN Invalid(<<"Unsupported file type: ",
                 FileExtension(input.file.originalName),
                 ". Allowed: mp4, avi, mov, mkv, webm">>)
  ELSE IF input.prompt = <<>> \/ StrLen(Trim(input.prompt)) = 0
  THEN Invalid(<<"Prompt is required for video transformation">>)
  ELSE IF StrLen(input.prompt) > maxPromptLength
  THEN Invalid(<<"Prompt too long (max ", ToString(maxPromptLength),
                 " chars)">>)
  ELSE IF ~Includes(<<"landscape", "portrait">>, input.orientation)
  THEN Invalid(<<"Orientation must be either \"landscape\" or \"portrait\"">>)
  ELSE Valid

RECURSIVE validatePromptsZeroBased(_, _)
\* a loop that reports the 0-based index of the offending prompt
validatePromptsZeroBased(prompts, i) ==
  IF i >= Len(prompts) THEN Valid
  ELSE IF prompts[i + 1] = <<>> \/ StrLen(Trim(prompts[i + 1])) = 0
  THEN Invalid(<<"Empty prompt found at row ", ToString(i)>>)
  ELSE IF StrLen(prompts[i + 1]) > maxPromptLength
  THEN Invalid(<<"Prompt at row ", ToString(i), " too long (max ",
                 ToString(maxPromptLength), " chars)">>)
  ELSE validatePromptsZeroBased(prompts, i + 1)

RECURSIVE validatePrompts(_, _)
\* the for loop of validateBatchInput, from index i (0-based as in the code)
validatePrompts(prompts, i) ==
  IF i >= Len(prompts) THEN Valid
  ELSE IF prompts[i + 1] = <<>> \/ StrLen(Trim(prompts[i + 1])) = 0
  THEN Invalid(<<"Empty prompt found at row ", ToString(i + 1)>>)
  ELSE IF StrLen(prompts[i + 1]) > maxPromptLength
  THEN Invalid(<<"Prompt at row ", ToString(i + 1), " too long (max ",
                 ToString(maxPromptLength), " chars)">>)
  ELSE validatePrompts(prompts, i + 1)

validateBatchInput(input) ==
  LET videoValidation ==
        validateVideoInput(SingleInput(input.modelCode, input.videoFile,
                                       <<Chunk("d", 5)>>, input.orientation))
  IN IF ~videoValidation.valid THEN videoValidation
     ELSE IF ~input.hasCsv
     THEN Invalid(<<"CSV file with prompts required">>)
     ELSE IF Len(input.prompts) = 0
     THEN Invalid(<<"CSV file must contain at least one prompt">>)
     ELSE validatePrompts(input.prompts, 0)

\* a test for the variable being set, whatever its value
isConfiguredWhenSet(key) == key # Undefined

\* !!process.env.DECART_API_KEY
isConfigured(key) == Truthy(key)

(***************************************************************************)
(* Job ids.  A job id is the string head ++ "_" ++ kind ++ "_" ++ ts ++    *)
(* "_" ++ rnd when sep holds, and the string head alone otherwise.         *)
(***************************************************************************)
JobId(head, sep, kind, ts, rnd) ==
  [head |-> head, sep |-> sep, kind |-> kind, ts |-> ts, rnd |-> rnd]

NoJob == JobId("", FALSE, "", 0, "")

\* values of Math.random().toString(36).substring(2, 9)
RandSet == {"k7f3a", "zq81x"}

\* "runway_single_0_k7f3a": a handle of another provider
RunwayJob == JobId("runway", TRUE, "single", 0, "k7f3a")

\* "decart": the namespace word without the separator
BareJob == JobId("decart", FALSE, "", 0, "")

\* "decart_batch_0_forged": in the namespace, never returned by run()
ForgedJob == JobId("decart", TRUE, "batch", 0, "forged")

ForeignHandles == {RunwayJob, BareJob, ForgedJob}

\* a test for the namespace word alone, without its separator
startsWithDecartWord(jobId) == jobId.head = "decart"

\* jobId.startsWith('decart_')
startsWithDecart(jobId) == jobId.head = "decart" /\ jobId.sep

(***************************************************************************)
(* Errors and outcomes of the awaited I/O.                                 *)
(***************************************************************************)
\* a thrown value; isError is `error instanceof Error`
Err(name, message) == [isError |-> TRUE, name |-> name, message |-> message]

\* fetch() rejecting on a network failure
NetworkError == Err("TypeError", <<"fetch failed">>)

\* AbortSignal.timeout() firing, as the fetch standard reports it
TimeoutError == Err("TimeoutError", <<"The operation was aborted due to timeout">>)

\* AbortSignal.timeout() firing, as runtimes that ignore the abort reason
\* report it
AbortError == Err("AbortError", <<"This operation was aborted">>)

\* property access on an undefined file or prompt list
NoFileError == Err("TypeError", <<"Cannot read properties of undefined">>)

\* fetch(null)
BadUrlError == Err("TypeError", <<"Failed to parse URL from ", Null>>)

Response(status) == [kind |-> "response", status |-> status]

Throw(error) == [kind |-> "throw", error |-> error]

\* response.ok
Ok(response) == response.status >= 200 /\ response.status <= 299

\* what awaiting the source-video fetch or its blob() can deliver
SourceOutcomes == {Response(200), Throw(NetworkError)}

\* what awaiting the upstream call can deliver
UpstreamOutcomes ==
  {Response(200), Response(500), Throw(NetworkError), Throw(TimeoutError),
   Throw(AbortError)}

\* what awaiting response.text() can deliver: a body text or a rejection
TextOutcomes ==
  {[kind |-> "text", text |-> <<"internal error">>],
   [kind |-> "text", text |-> <<"gateway timeout">>],
   Throw(TimeoutError)}

\* what awaiting response.blob() of the upstream response can deliver
BlobOutcomes == {[kind |-> "blob"], Throw(TimeoutError)}

\* the message parts of the model in which 'timeout' occurs
MentionsTimeout(part) ==
  part \in {"The operation was aborted due to timeout", "gateway timeout"}

\* error.message.includes('timeout')
MessageIncludesTimeout(message) ==
  \E k \in 1..Len(message) : MentionsTimeout(message[k])

(***************************************************************************)
(* ProviderRunResult and ProviderStatusResult.                             *)
(***************************************************************************)
Deferred(jobId) ==
  [kind |-> "deferred", providerJobId |-> jobId, error |-> <<>>]

Thrown(message) ==
  [kind |-> "thrown", providerJobId |-> NoJob, error |-> message]

NoRet == [status |-> "pending"]

Running == [status |-> "running"]

Failed(message) == [status |-> "failed", error |-> message]

Succeeded(output) == [status |-> "succeeded", output |-> output]

\* a lookup that gives every orientation the landscape frame
getOutputDimensionsLandscape(orientation) == orientations.landscape

getOutputDimensions(orientation) ==
  IF orientation \in DOMAIN orientations
  THEN orientations[orientation]
  ELSE orientations.landscape

\* `output_${timestamp}_${random}.mp4`
generateSequentialFilename(timestamp, random) ==
  <<"output_", ToString(timestamp), "_", random, ".mp4">>

(***************************************************************************)
(* run(): the submit operation.  It has no await: one atomic step.         *)
(***************************************************************************)
validate(input) ==
  IF IsBatch(input) THEN validateBatchInput(input) ELSE validateVideoInput(input)

\* a run() that mints the handle without consulting the validator's verdict
runUnchecked(input, key, timestamp, random) ==
  IF ~isConfigured(key)
  THEN [result |-> Thrown(<<"Decart not configured - missing DECART_API_KEY">>),
        validated |-> FALSE]
  ELSE [result |->
          Deferred(JobId("decart", TRUE,
                         IF IsBatch(input) THEN "batch" ELSE "single",
                         timestamp, random)),
        validated |-> TRUE]

\* the value run() resolves or rejects with; validated records whether the
\* validator was called
run(input, key, timestamp, random) ==
  IF ~isConfigured(key)
  THEN [result |-> Thrown(<<"Decart not configured - missing DECART_API_KEY">>),
        validated |-> FALSE]
  ELSE IF ~validate(input).valid
  THEN [result |-> Thrown(validate(input).error), validated |-> TRUE]
  ELSE [result |->
          Deferred(JobId("decart", TRUE,
                         IF IsBatch(input) THEN "batch" ELSE "single",
                         timestamp, random)),
        validated |-> TRUE]

Submit(input, random) ==
  /\ Len(runs) < MaxRuns
  /\ LET r == run(input, apiKey, now, random)
     IN runs' = Append(runs, [input |-> input, result |-> r.result,
                              validated |-> r.validated])
  /\ UNCHANGED <<apiKey, now, polls, net>>

\* Date.now() advances
Tick ==
  /\ now < MaxClock
  /\ now' = now + 1
  /\ UNCHANGED <<apiKey, runs, polls, net>>

(***************************************************************************)
(* result(): the poll operation.  Each invocation p has a frame; it        *)
(* suspends at every await, where other invocations may run.               *)
(*   pc          where the invocation is suspended ("idle": not called,    *)
(*               "done": returned)                                         *)
(*   ret         the ProviderStatusResult it resolved with                 *)
(*   results, i, prompt, dimensions, status   locals of the pipelines      *)
(*   source      the outcomes of its awaits on the source video, in order  *)
(*   calls       the outcomes of the upstream calls it awaited, in order,  *)
(*               each with the loop index it was issued for                *)
(*   srcFetches, upCalls   the fetch() calls it has issued                 *)
(***************************************************************************)
IdleFrame ==
  [pc |-> "idle", jobId |-> NoJob, input |-> NoInput, ret |-> NoRet,
   results |-> <<>>, i |-> 0, prompt |-> <<>>,
   dimensions |-> orientations.landscape, status |-> 0,
   looked |-> <<>>, source |-> <<>>, calls |-> <<>>, body |-> <<>>,
   srcFetches |-> 0, upCalls |-> 0]

\* the invocation returns r
Return(f, r) == [f EXCEPT !.pc = "done", !.ret = r]

\* the catch block of result()
Catch(f, error) ==
  Return(f,
    IF ~error.isError
    THEN Failed(<<"Unknown error occurred during video processing">>)
    ELSE IF error.name = "AbortError"
    THEN Failed(<<"Video processing timed out. Please try again with a smaller video.">>)
    ELSE IF MessageIncludesTimeout(error.message)
    THEN Failed(<<"Video processing is taking longer than expected. Please try again.">>)
    ELSE Failed(<<"Video processing failed: ">> \o error.message))

\* an upstream call that fetches the source video again before it is issued
IssueUpstreamRefetch(f, at) ==
  [f EXCEPT !.pc = at, !.upCalls = @ + 1, !.srcFetches = @ + 1]

\* fetch(DECART_CONFIG.api.endpoint, ...) is issued; the invocation awaits it
IssueUpstream(f, at) == [f EXCEPT !.pc = at, !.upCalls = @ + 1]

\* fetch(signedUrl) is issued, unless reading the URL or parsing it throws
IssueSource(f, file, at) ==
  IF ~HasFile(file) THEN Catch(f, NoFileError)
  ELSE IF file.signedUrl = Null THEN Catch(f, BadUrlError)
  ELSE [f EXCEPT !.pc = at, !.srcFetches = @ + 1]

\* processSingleVideo up to its first await
processSingleVideo(f) ==
  IssueSource([f EXCEPT !.dimensions = getOutputDimensions(f.input.orientation),
                        !.looked = Append(@, f.input.orientation)],
              f.input.file, "single_source")

\* a tally that counts the failures as the successes
BatchOutputMiscount(results) ==
  LET successCount == Cardinality({k \in 1..Len(results) : ~results[k].success})
  IN [type |-> "batch-results", totalProcessed |-> Len(results),
      successCount |-> successCount,
      failureCount |-> Len(results) - successCount, results |-> results]

BatchOutput(results) ==
  LET successCount == Cardinality({k \in 1..Len(results) : results[k].success})
  IN [type |-> "batch-results", totalProcessed |-> Len(results),
      successCount |-> successCount,
      failureCount |-> Len(results) - successCount, results |-> results]

ItemFailure(prompt, message) ==
  [prompt |-> prompt, success |-> FALSE, error |-> message]

ItemSuccess(prompt, videoUrl, outputFile) ==
  [prompt |-> prompt, success |-> TRUE, videoUrl |-> videoUrl,
   outputFile |-> outputFile]

RECURSIVE BatchLoopAllOrNothing(_)
\* a loop that reports a batch without any success as failed
BatchLoopAllOrNothing(f) ==
  IF f.i >= Len(f.input.prompts)
  THEN IF \E k \in 1..Len(f.results) : f.results[k].success
       THEN Return(f, Succeeded(BatchOutput(f.results)))
       ELSE Return(f, Failed(<<"Video processing failed: ", "all prompts failed">>))
  ELSE LET prompt == Trim(f.input.prompts[f.i + 1])
       IN IF prompt = <<>>
          THEN BatchLoopAllOrNothing([f EXCEPT
                 !.results = Append(@, ItemFailure(prompt, <<"Empty prompt">>)),
                 !.i = @ + 1])
          ELSE IssueUpstream([f EXCEPT !.prompt = prompt], "batch_upstream")

RECURSIVE BatchLoopAllAtOnce(_)
\* a loop that starts the upstream calls of all its prompts with the first one
BatchLoopAllAtOnce(f) ==
  IF f.i >= Len(f.input.prompts)
  THEN Return(f, Succeeded(BatchOutput(f.results)))
  ELSE LET prompt == Trim(f.input.prompts[f.i + 1])
       IN IF prompt = <<>>
          THEN BatchLoopAllAtOnce([f EXCEPT
                 !.results = Append(@, ItemFailure(prompt, <<"Empty prompt">>)),
                 !.i = @ + 1])
          ELSE [f EXCEPT !.prompt = prompt, !.pc = "batch_upstream",
                         !.upCalls = IF @ = 0
                                     THEN Cardinality(
                                            {k \in (f.i + 1)..Len(f.input.prompts) :
                                               Trim(f.input.prompts[k]) # <<>>})
                                     ELSE @]

RECURSIVE BatchLoop(_)
\* the for loop of processBatch from its head, up to the next await or the
\* return
BatchLoop(f) ==
  IF f.i >= Len(f.input.prompts)
  THEN Return(f, Succeeded(BatchOutput(f.results)))
  ELSE LET prompt == Trim(f.input.prompts[f.i + 1])
       IN IF prompt = <<>>
          THEN BatchLoop([f EXCEPT
                 !.results = Append(@, ItemFailure(prompt, <<"Empty prompt">>)),
                 !.i = @ + 1])
          ELSE IssueUpstream([f EXCEPT !.prompt = prompt], "batch_upstream")

\* processBatch up to its first await
processBatch(f) ==
  IssueSource([f EXCEPT !.results = <<>>,
                        !.dimensions = getOutputDimensions(f.input.orientation),
                        !.looked = Append(@, f.input.orientation)],
              f.input.videoFile, "batch_source")

\* a result() that runs a pipeline only for a handle of the request's kind
resultKindChecked(jobId, input) ==
  LET f == [IdleFrame EXCEPT !.jobId = jobId, !.input = input]
  IN IF ~startsWithDecart(jobId) \/ input = NoInput
     THEN Return(f, Running)
     ELSE IF jobId.kind # (IF IsBatch(input) THEN "batch" ELSE "single")
     THEN Return(f, Running)
     ELSE IF IsBatch(input) THEN processBatch(f)
     ELSE processSingleVideo(f)

\* a result() that answers from the outcome an earlier invocation returned
\* for the same handle and request
resultMemoized(jobId, input) ==
  LET f == [IdleFrame EXCEPT !.jobId = jobId, !.input = input]
      earlier == {q \in DOMAIN polls :
                    /\ polls[q].pc = "done"
                    /\ polls[q].jobId = jobId
                    /\ polls[q].input = input}
  IN IF ~startsWithDecart(jobId) \/ input = NoInput
     THEN Return(f, Running)
     ELSE IF earlier # {}
     THEN Return(f, polls[CHOOSE q \in earlier : TRUE].ret)
     ELSE IF IsBatch(input) THEN processBatch(f)
     ELSE processSingleVideo(f)

\* result() up to its first await or its return
result(jobId, input) ==
  LET f == [IdleFrame EXCEPT !.jobId = jobId, !.input = input]
  IN IF ~startsWithDecart(jobId) \/ input = NoInput
     THEN Return(f, Running)
     ELSE IF IsBatch(input) THEN processBatch(f)
     ELSE processSingleVideo(f)

\* invocation p moves to frame f; the fetch() calls it issued are counted
Step(p, f) ==
  /\ polls' = [polls EXCEPT ![p] = f]
  /\ net' = [src |-> net.src + (f.srcFetches - polls[p].srcFetches),
             up |-> net.up + (f.upCalls - polls[p].upCalls)]
  /\ UNCHANGED <<apiKey, now, runs>>

\* the handles run() has returned so far
Issued ==
  {runs[k].result.providerJobId :
     k \in {n \in 1..Len(runs) : runs[n].result.kind = "deferred"}}

Poll(p, jobId, input) ==
  /\ polls[p].pc = "idle"
  /\ \A q \in 1..(p - 1) : polls[q].pc # "idle"
  /\ Step(p, result(jobId, input))

SingleSourceSettle(p, o) ==
  /\ polls[p].pc = "single_source"
  /\ LET f == [polls[p] EXCEPT !.source = Append(@, o)]
     IN Step(p, IF o.kind = "throw" THEN Catch(f, o.error)
                ELSE [f EXCEPT !.pc = "single_source_blob"])

SingleSourceBlobSettle(p, o) ==
  /\ polls[p].pc = "single_source_blob"
  /\ LET f == [polls[p] EXCEPT !.source = Append(@, o)]
     IN Step(p, IF o.kind = "throw" THEN Catch(f, o.error)
                ELSE IssueUpstream(f, "single_upstream"))

SingleUpstreamSettle(p, o) ==
  /\ polls[p].pc = "single_upstream"
  /\ LET f == [polls[p] EXCEPT !.calls = Append(@, [i |-> 0, outcome |-> o])]
     IN Step(p, IF o.kind = "throw" THEN Catch(f, o.error)
                ELSE IF ~Ok(o) THEN [f EXCEPT !.pc = "single_text",
                                              !.status = o.status]
                ELSE [f EXCEPT !.pc = "single_blob", !.status = o.status])

SingleTextSettle(p, o) ==
  /\ polls[p].pc = "single_text"
  /\ LET f == [polls[p] EXCEPT !.body = Append(@, o)]
     IN Step(p, IF o.kind = "throw" THEN Catch(f, o.error)
                ELSE Catch(f, Err("Error", <<"Decart API error (",
                                            ToString(f.status), "): ">>
                                          \o o.text)))

SingleBlobSettle(p, o, random) ==
  /\ polls[p].pc = "single_blob"
  /\ LET f == [polls[p] EXCEPT !.body = Append(@, o)]
     IN Step(p, IF o.kind = "throw" THEN Catch(f, o.error)
                ELSE Return(f, Succeeded(
                       [type |-> "video",
                        url |-> <<"/static/videos/processed_", ToString(now),
                                  ".mp4">>,
                        format |-> "mp4",
                        width |-> f.dimensions.width,
                        height |-> f.dimensions.height,
                        provider |-> "decart-video", model |-> "vid2vid",
                        prompt |-> f.input.prompt,
                        orientation |-> f.input.orientation,
                        outputFile |-> generateSequentialFilename(now, random)])))

BatchSourceSettle(p, o) ==
  /\ polls[p].pc = "batch_source"
  /\ LET f == [polls[p] EXCEPT !.source = Append(@, o)]
     IN Step(p, IF o.kind = "throw" THEN Catch(f, o.error)
                ELSE [f EXCEPT !.pc = "batch_source_blob"])

BatchSourceBlobSettle(p, o) ==
  /\ polls[p].pc = "batch_source_blob"
  /\ LET f == [polls[p] EXCEPT !.source = Append(@, o)]
     IN Step(p, IF o.kind = "throw" THEN Catch(f, o.error)
                ELSE IF ~f.input.hasCsv THEN Catch(f, NoFileError)
                ELSE BatchLoop([f EXCEPT !.i = 0]))

\* an iteration that puts its entry in front of the earlier ones
BatchItemUnshift(f, o, timestamp, random) ==
  IF o.kind = "throw"
  THEN [f EXCEPT !.results = <<ItemFailure(f.prompt, o.error.message)>> \o @,
                 !.i = @ + 1]
  ELSE IF Ok(o)
  THEN [f EXCEPT !.results = <<ItemSuccess(f.prompt,
                     <<"/static/videos/batch_", ToString(timestamp), "_",
                       ToString(f.i), ".mp4">>,
                     generateSequentialFilename(timestamp, random))>> \o @,
                 !.i = @ + 1]
  ELSE [f EXCEPT !.results = <<ItemFailure(f.prompt,
                     <<"API request failed: ", ToString(o.status)>>)>> \o @,
                 !.i = @ + 1]

\* an iteration that tries a prompt a second time when its first call throws
BatchItemRetryOnce(f, o, timestamp, random) ==
  IF o.kind = "throw"
     /\ Cardinality({k \in 1..Len(f.calls) : f.calls[k].i = f.i}) = 1
  THEN f
  ELSE IF o.kind = "throw"
  THEN [f EXCEPT !.results = Append(@, ItemFailure(f.prompt,
                     IF o.error.isError THEN o.error.message
                     ELSE <<"Unknown error">>)),
                 !.i = @ + 1]
  ELSE IF Ok(o)
  THEN [f EXCEPT !.results = Append(@, ItemSuccess(f.prompt,
                     <<"/static/videos/batch_", ToString(timestamp), "_",
                       ToString(f.i), ".mp4">>,
                     generateSequentialFilename(timestamp, random))),
                 !.i = @ + 1]
  ELSE [f EXCEPT !.results = Append(@, ItemFailure(f.prompt,
                     <<"API request failed: ", ToString(o.status)>>)),
                 !.i = @ + 1]

\* the body of the try block of one iteration after its await, and its catch
BatchItem(f, o, timestamp, random) ==
  IF o.kind = "throw"
  THEN [f EXCEPT !.results = Append(@, ItemFailure(f.prompt,
                     IF o.error.isError THEN o.error.message
                     ELSE <<"Unknown error">>)),
                 !.i = @ + 1]
  ELSE IF Ok(o)
  THEN [f EXCEPT !.results = Append(@, ItemSuccess(f.prompt,
                     <<"/static/videos/batch_", ToString(timestamp), "_",
                       ToString(f.i), ".mp4">>,
                     generateSequentialFilename(timestamp, random))),
                 !.i = @ + 1]
  ELSE [f EXCEPT !.results = Append(@, ItemFailure(f.prompt,
                     <<"API request failed: ", ToString(o.status)>>)),
                 !.i = @ + 1]

\* an iteration without its own try/catch: a thrown error unwinds to result()
BatchUpstreamSettleUncaught(p, o, random) ==
  /\ polls[p].pc = "batch_upstream"
  /\ LET f == [polls[p] EXCEPT
                 !.calls = Append(@, [i |-> polls[p].i, outcome |-> o])]
     IN Step(p, IF o.kind = "throw" THEN Catch(f, o.error)
                ELSE BatchLoop(BatchItem(f, o, now, random)))

BatchUpstreamSettle(p, o, random) ==
  /\ polls[p].pc = "batch_upstream"
  /\ LET f == [polls[p] EXCEPT
                 !.calls = Append(@, [i |-> polls[p].i, outcome |-> o])]
     IN Step(p, BatchLoop(BatchItem(f, o, now, random)))

(***************************************************************************)
(* The specification.                                                      *)
(***************************************************************************)
\* process.env.DECART_API_KEY: unset, empty or a key
ApiKeys == {Undefined, "", "sk-decart"}

Init ==
  /\ apiKey \in ApiKeys
  /\ now = 0
  /\ runs = <<>>
  /\ polls = [p \in 1..MaxPolls |-> IdleFrame]
  /\ net = [src |-> 0, up |-> 0]

\* the callers of run() and the clock
NextSubmit ==
  \/ Tick
  \/ \E input \in Requests, random \in RandSet : Submit(input, random)

\* the callers of result(), the clock and the settling of the awaited I/O
NextPoll ==
  \/ Tick
  \/ \E p \in 1..MaxPolls, jobId \in Issued \cup ForeignHandles,
        input \in Requests \cup {NoInput} : Poll(p, jobId, input)
  \/ \E p \in 1..MaxPolls, o \in SourceOutcomes : SingleSourceSettle(p, o)
  \/ \E p \in 1..MaxPolls, o \in SourceOutcomes : SingleSourceBlobSettle(p, o)
  \/ \E p \in 1..MaxPolls, o \in UpstreamOutcomes : SingleUpstreamSettle(p, o)
  \/ \E p \in 1..MaxPolls, o \in TextOutcomes : SingleTextSettle(p, o)
  \/ \E p \in 1..MaxPolls, o \in BlobOutcomes, random \in RandSet :
        SingleBlobSettle(p, o, random)
  \/ \E p \in 1..MaxPolls, o \in SourceOutcomes : BatchSourceSettle(p, o)
  \/ \E p \in 1..MaxPolls, o \in SourceOutcomes : BatchSourceBlobSettle(p, o)
  \/ \E p \in 1..MaxPolls, o \in UpstreamOutcomes, random \in RandSet :
        BatchUpstreamSettle(p, o, random)

Next ==
  \/ \E input \in Requests, random \in RandSet : Submit(input, random)
  \/ NextPoll

\* the provider with its callers
Spec == Init /\ [][Next]_vars

\* run() alone
SubmitSpec == Init /\ [][NextSubmit]_vars

\* result() alone, polled with handles run() never returned
PollSpec == Init /\ [][NextPoll]_vars

\* Every upstream call carries AbortSignal.timeout(300000), which also ends
\* the reading of the response body: it settles.  The source-video fetch
\* carries no signal, so nothing in the code makes it settle.
UpstreamSettles ==
  \A p \in 1..MaxPolls :
    /\ WF_vars(\E o \in UpstreamOutcomes : SingleUpstreamSettle(p, o))
    /\ WF_vars(\E o \in TextOutcomes : SingleTextSettle(p, o))
    /\ WF_vars(\E o \in BlobOutcomes, random \in RandSet :
                 SingleBlobSettle(p, o, random))
    /\ WF_vars(\E o \in UpstreamOutcomes, random \in RandSet :
                 BatchUpstreamSettle(p, o, random))

FairSpec == Spec /\ UpstreamSettles

FairPollSpec == PollSpec /\ UpstreamSettles

(***************************************************************************)
(* One job polled again and again, one invocation after or during another. *)
(***************************************************************************)
\* the handle run() returns for `input` at clock 0
HandleOf(input) == run(input, "sk-decart", 0, "k7f3a").result.providerJobId

RepollJobs == {ValidSingle, ValidBatch}

\* one invocation more than the other specifications have
RepollInit ==
  /\ apiKey \in ApiKeys
  /\ now = 0
  /\ runs = <<>>
  /\ polls = [p \in 1..(MaxPolls + 1) |-> IdleFrame]
  /\ net = [src |-> 0, up |-> 0]

\* result() is called for the job the earlier invocations were called for
Repoll(p, input) ==
  /\ \A q \in DOMAIN polls : polls[q].pc # "idle" => polls[q].input = input
  /\ Poll(p, HandleOf(input), input)

NextRepoll ==
  \/ \E p \in DOMAIN polls, input \in RepollJobs : Repoll(p, input)
  \/ \E p \in DOMAIN polls, o \in SourceOutcomes : SingleSourceSettle(p, o)
  \/ \E p \in DOMAIN polls, o \in SourceOutcomes : SingleSourceBlobSettle(p, o)
  \/ \E p \in DOMAIN polls, o \in UpstreamOutcomes : SingleUpstreamSettle(p, o)
  \/ \E p \in DOMAIN polls, o \in TextOutcomes : SingleTextSettle(p, o)
  \/ \E p \in DOMAIN polls, o \in BlobOutcomes, random \in RandSet :
        SingleBlobSettle(p, o, random)
  \/ \E p \in DOMAIN polls, o \in SourceOutcomes : BatchSourceSettle(p, o)
  \/ \E p \in DOMAIN polls, o \in SourceOutcomes : BatchSourceBlobSettle(p, o)
  \/ \E p \in DOMAIN polls, o \in UpstreamOutcomes, random \in RandSet :
        BatchUpstreamSettle(p, o, random)

\* result() called several times for one job
RepollSpec == RepollInit /\ [][NextRepoll]_vars

(***************************************************************************)
(* One request polled under several handles.                               *)
(***************************************************************************)
\* "decart_single_0_k7f3a", "decart_batch_0_k7f3a" and "decart"
PolledHandles == {HandleOf(ValidSingle), HandleOf(ValidBatch), BareJob}

\* a batch of one prompt
SoloBatch == BatchInput("DecartVideo", ClipMov, <<PromptElf>>, "portrait", TRUE)

\* a single request run() rejects and a batch request
PolledRequests == {SquareSingle, SoloBatch}

\* result() is called with the request of the earlier invocations and any
\* handle
PollAs(p, jobId, input) ==
  /\ \A q \in DOMAIN polls : polls[q].pc # "idle" => polls[q].input = input
  /\ Poll(p, jobId, input)

NextHandles ==
  \/ \E p \in DOMAIN polls, jobId \in PolledHandles, input \in PolledRequests :
        PollAs(p, jobId, input)
  \/ \E p \in DOMAIN polls, o \in SourceOutcomes : SingleSourceSettle(p, o)
  \/ \E p \in DOMAIN polls, o \in SourceOutcomes : SingleSourceBlobSettle(p, o)
  \/ \E p \in DOMAIN polls, o \in UpstreamOutcomes : SingleUpstreamSettle(p, o)
  \/ \E p \in DOMAIN polls, o \in TextOutcomes : SingleTextSettle(p, o)
  \/ \E p \in DOMAIN polls, o \in BlobOutcomes, random \in RandSet :
        SingleBlobSettle(p, o, random)
  \/ \E p \in DOMAIN polls, o \in SourceOutcomes : BatchSourceSettle(p, o)
  \/ \E p \in DOMAIN polls, o \in SourceOutcomes : BatchSourceBlobSettle(p, o)
  \/ \E p \in DOMAIN polls, o \in UpstreamOutcomes, random \in RandSet :
        BatchUpstreamSettle(p, o, random)

\* result() called for one request under handles run() never returned
HandleSpec == RepollInit /\ [][NextHandles]_vars

(***************************************************************************)
(* The validators on a grid of requests: one run() call per behaviour.     *)
(***************************************************************************)
\* "a" repeated 1000 times: the longest prompt accepted
PromptMax == <<Chunk("a", maxPromptLength)>>

\* "a" repeated 1001 times
PromptLong == <<Chunk("a", maxPromptLength + 1)>>

\* "a" followed by 1000 spaces: not empty after trimming, 1001 characters
PromptPadded == <<Chunk("a", 1), Chunk(" ", maxPromptLength)>>

CasePrompts ==
  {PromptRobot, PromptElf, <<>>, PromptBlank, PromptMax, PromptLong,
   PromptPadded}

\* "clip.mov", "CLIP.MP4", "clip.gif", "clip" and "clip."
CaseNames ==
  {<<"clip", "mov">>, <<"CLIP", "MP4">>, <<"clip", "gif">>, <<"clip">>,
   <<"clip", "">>}

\* 40 MB, exactly 100 MB, one byte more, and 150 MB
CaseSizes ==
  {40 * BytesPerMB, maxFileSizeMB * BytesPerMB, maxFileSizeMB * BytesPerMB + 1,
   150 * BytesPerMB}

CaseFiles ==
  {NoFile} \cup
  {File(url, size, name) :
     url \in {"https://store/clip", Null}, size \in CaseSizes,
     name \in CaseNames}

SingleCases ==
  {SingleInput(code, file, prompt, orientation) :
     code \in {"DecartVideo", "RunwayVideo"}, file \in CaseFiles,
     prompt \in CasePrompts,
     orientation \in {"landscape", "portrait", "square"}}

\* the prompt lists of one to three rows over four prompts
CaseRows == {PromptElf, <<>>, PromptBlank, PromptLong}

CaseLists ==
  {<<>>} \cup {<<a>> : a \in CaseRows}
  \cup {<<a, b>> : a \in CaseRows, b \in CaseRows}
  \cup {<<a, b, c>> : a \in CaseRows, b \in CaseRows, c \in CaseRows}

BatchCases ==
  {BatchInput("DecartVideo", file, prompts, orientation, TRUE) :
     file \in {ClipMov, File("https://store/clip", 150 * BytesPerMB,
                              <<"clip", "mov">>)},
     prompts \in CaseLists, orientation \in {"portrait", "square"}}
  \cup {BatchInput("DecartVideo", ClipMov, <<>>, "portrait", FALSE)}

\* the first run() call of a behaviour
Validate(input, random) ==
  /\ runs = <<>>
  /\ Submit(input, random)

NextValidate ==
  \E input \in SingleCases \cup BatchCases, random \in RandSet :
    Validate(input, random)

\* run() called once, on any request of the grid
ValidateSpec == Init /\ [][NextValidate]_vars

(***************************************************************************)
(* Vocabulary of the properties.                                           *)
(***************************************************************************)
PollIds == 1..MaxPolls

\* the handle is a string that begins with "decart_"
InNamespace(jobId) == jobId.sep /\ jobId.head = "decart"

\* DECART_API_KEY is unset or empty
CredentialMissing == apiKey \in {Undefined, ""}

NoNetwork == [src |-> 0, up |-> 0]

\* invocation p was called with a handle of this provider and a request
Recognized(p) ==
  /\ polls[p].pc # "idle"
  /\ InNamespace(polls[p].jobId)
  /\ polls[p].input # NoInput

BatchPoll(p) == Recognized(p) /\ IsBatch(polls[p].input)

Returned(p) == polls[p].pc = "done"

\* the shared source video was fetched and read
SourceLoaded(p) ==
  /\ Len(polls[p].source) = 2
  /\ \A k \in 1..2 : polls[p].source[k].kind = "response"

\* a BatchOutput was returned by invocation p
ReturnedBatchOutput(p) ==
  /\ BatchPoll(p)
  /\ Returned(p)
  /\ polls[p].ret.status = "succeeded"

\* the upstream call of loop index i (0-based) failed: non-2xx status, thrown
\* network error or timeout
CallFailed(c) == c.outcome.kind = "throw" \/ ~Ok(c.outcome)

\* the loop indices (0-based) of the batches of the model
BatchIndices ==
  UNION {0..(Len(r.prompts) - 1) : r \in {q \in Requests : IsBatch(q)}}

\* the entry of loop index i is in results
Recorded(p, i) == Len(polls[p].results) >= i + 1

\* loop index i was attempted: its call was issued, or its prompt is empty
\* after trimming and its "Empty prompt" entry is recorded
Attempted(p, i) ==
  \/ polls[p].pc = "batch_upstream" /\ polls[p].i = i
  \/ \E k \in 1..Len(polls[p].calls) : polls[p].calls[k].i = i
  \/ /\ Recorded(p, i)
     /\ ~polls[p].results[i + 1].success
     /\ polls[p].results[i + 1].error = <<"Empty prompt">>

(***************************************************************************)
(* C1.  In a batch poll over prompts p[1..N], the failure of item i        *)
(* (non-2xx response, thrown network error or timeout of its call) never   *)
(* prevents the later items from being attempted: once item i's call has   *)
(* failed, for i < N, item i's entry is recorded and item i+1 has been     *)
(* attempted; its entry is recorded too unless its call is still in        *)
(* flight, and a poll that has returned holds the entries of all later     *)
(* items.                                                                  *)
(***************************************************************************)
FailedAt(p, i) ==
  \E k \in 1..Len(polls[p].calls) :
    polls[p].calls[k].i = i /\ CallFailed(polls[p].calls[k])

C1_FailureDoesNotStopBatch ==
  \A p \in PollIds : \A i \in BatchIndices :
    (BatchPoll(p) /\ i + 1 < Len(polls[p].input.prompts) /\ FailedAt(p, i))
    => /\ Recorded(p, i)
       /\ ~polls[p].results[i + 1].success
       /\ Attempted(p, i + 1)
       /\ \/ Recorded(p, i + 1)
          \/ polls[p].pc = "batch_upstream" /\ polls[p].i = i + 1
       /\ Returned(p) =>
            \A j \in (i + 1)..(Len(polls[p].input.prompts) - 1) :
              Attempted(p, j) /\ Recorded(p, j)

\* the same, as progress under the fairness of FairPollSpec: the failure of
\* item i's call leads to the entry of item i+1
C1_EventuallyRecorded ==
  \A p \in PollIds : \A i \in BatchIndices :
    (BatchPoll(p) /\ i + 1 < Len(polls[p].input.prompts) /\ FailedAt(p, i))
    ~> (BatchPoll(p) /\ Attempted(p, i + 1) /\ Recorded(p, i + 1))

\* the first call of a batch timed out, the second returned 500, and both
\* following entries are recorded
C1_Witness ==
  \E p \in PollIds :
    /\ BatchPoll(p)
    /\ Len(polls[p].calls) >= 2
    /\ polls[p].calls[1].outcome = Throw(TimeoutError)
    /\ polls[p].calls[2].outcome = Response(500)
    /\ Len(polls[p].results) = 3

(***************************************************************************)
(* C2 as claimed.  A poll of a batch request (recognized handle, request   *)
(* supplied) always returns the status 'succeeded'; it never returns       *)
(* 'failed'.                                                               *)
(***************************************************************************)
C2_BatchPollNeverFails ==
  \A p \in PollIds :
    BatchPoll(p) /\ Returned(p) => polls[p].ret.status = "succeeded"

(***************************************************************************)
(* C2 as amended.  A poll of a batch request (recognized handle, request   *)
(* supplied, prompt list present) whose shared source video was fetched    *)
(* and read returns 'succeeded' wrapping a BatchOutput, even when every    *)
(* item failed; a poll in which obtaining the source video throws returns  *)
(* 'failed' instead.                                                       *)
(***************************************************************************)
C2_BatchPollSucceedsOnceSourceLoaded ==
  \A p \in PollIds :
    BatchPoll(p) /\ Returned(p) =>
      IF SourceLoaded(p) /\ polls[p].input.hasCsv
      THEN /\ polls[p].ret.status = "succeeded"
           /\ polls[p].ret.output.type = "batch-results"
      ELSE polls[p].ret.status = "failed"

\* a batch poll returned 'succeeded' although every item failed
C2_Witness ==
  \E p \in PollIds :
    /\ ReturnedBatchOutput(p)
    /\ polls[p].ret.output.totalProcessed >= 2
    /\ polls[p].ret.output.successCount = 0

(***************************************************************************)
(* C3.  For every batch of N prompts and every combination of per-item     *)
(* outcomes, the returned BatchOutput has totalProcessed = N, successCount *)
(* = the number of items whose upstream call returned a success status,    *)
(* failureCount = N - successCount; entry k is marked failed exactly when  *)
(* item k did not get a success status.                                    *)
(***************************************************************************)
SucceededCalls(p) ==
  {k \in 1..Len(polls[p].calls) : ~CallFailed(polls[p].calls[k])}

C3_BatchCounts ==
  \A p \in PollIds :
    ReturnedBatchOutput(p) =>
      LET out == polls[p].ret.output
          N == Len(polls[p].input.prompts)
      IN /\ out.totalProcessed = N
         /\ out.successCount = Cardinality(SucceededCalls(p))
         /\ out.failureCount = N - out.successCount
         /\ out.successCount + out.failureCount = out.totalProcessed
         /\ Len(out.results) = N
         /\ \A k \in 1..Len(out.results) :
              out.results[k].success <=>
                \E c \in SucceededCalls(p) : polls[p].calls[c].i = k - 1

\* a batch of two whose first call returned 500 and whose second succeeded
C3_Witness ==
  \E p \in PollIds :
    /\ ReturnedBatchOutput(p)
    /\ polls[p].calls[1].outcome = Response(500)
    /\ polls[p].ret.output.totalProcessed = 2
    /\ polls[p].ret.output.successCount = 1
    /\ polls[p].ret.output.failureCount = 1
    /\ ~polls[p].ret.output.results[1].success
    /\ polls[p].ret.output.results[2].success

(***************************************************************************)
(* C4.  Batch results preserve the input prompt order: at every point of a *)
(* batch poll entry j of results belongs to prompt j, for every j already  *)
(* processed, and the returned BatchOutput has exactly N entries, entry j  *)
(* carrying the trimmed j-th prompt, whatever the mix of outcomes.         *)
(***************************************************************************)
C4_ResultsInPromptOrder ==
  \A p \in PollIds :
    BatchPoll(p) =>
      /\ Len(polls[p].results) <= Len(polls[p].input.prompts)
      /\ \A j \in 1..Len(polls[p].results) :
           polls[p].results[j].prompt = Trim(polls[p].input.prompts[j])
      /\ polls[p].pc = "batch_upstream" => Len(polls[p].results) = polls[p].i
      /\ ReturnedBatchOutput(p) =>
           /\ polls[p].ret.output.results = polls[p].results
           /\ Len(polls[p].results) = Len(polls[p].input.prompts)

\* a returned batch with a failure between two successes
C4_Witness ==
  \E p \in PollIds :
    /\ ReturnedBatchOutput(p)
    /\ Len(polls[p].ret.output.results) = 3
    /\ polls[p].ret.output.results[1].success
    /\ ~polls[p].ret.output.results[2].success
    /\ polls[p].ret.output.results[3].success
    /\ polls[p].input.prompts[3] = PromptTiger
    /\ polls[p].ret.output.results[3].prompt = <<Chunk("t", 5)>>

(***************************************************************************)
(* C5 as claimed.  A job polled with a handle returned by submit together  *)
(* with the original request reaches a terminal outcome: the poll          *)
(* eventually returns, and returns 'succeeded' or 'failed', for every      *)
(* behaviour of the source-video fetch and of the upstream calls.          *)
(***************************************************************************)
FromSubmit(p) ==
  \E k \in 1..Len(runs) :
    /\ runs[k].result.kind = "deferred"
    /\ runs[k].result.providerJobId = polls[p].jobId
    /\ runs[k].input = polls[p].input

C5_PollReachesTerminalOutcome ==
  \A p \in PollIds :
    (polls[p].pc # "idle" /\ FromSubmit(p))
    ~> (Returned(p) /\ polls[p].ret.status \in {"succeeded", "failed"})

(***************************************************************************)
(* C6.  A poll with a handle outside the provider's namespace (not         *)
(* beginning with 'decart_'), or with no request, returns 'running'        *)
(* without throwing and without any source-video fetch or upstream call.   *)
(***************************************************************************)
C6_UnrecognizedPollIsRunning ==
  \A p \in PollIds :
    (/\ polls[p].pc # "idle"
     /\ ~InNamespace(polls[p].jobId) \/ polls[p].input = NoInput)
    => /\ Returned(p)
       /\ polls[p].ret = Running
       /\ polls[p].srcFetches = 0
       /\ polls[p].upCalls = 0
       /\ polls[p].source = <<>>
       /\ polls[p].calls = <<>>

\* the handle "decart", which lacks the separator, polled with a valid request
C6_Witness ==
  \E p \in PollIds :
    /\ polls[p].jobId = BareJob
    /\ polls[p].input = ValidSingle
    /\ polls[p].ret = Running

(***************************************************************************)
(* C7.  Submit never performs the transformation: it issues no network     *)
(* call; it returns a deferred handle exactly when the validator accepts   *)
(* the request, and when the validator rejects it submit rejects with the  *)
(* validator's reason and returns no handle.                               *)
(***************************************************************************)
C7_SubmitOnlyValidatesAndDefers ==
  /\ net = NoNetwork
  /\ \A k \in 1..Len(runs) :
       LET r == runs[k]
           v == validate(r.input)
       IN /\ r.result.kind = "deferred" <=> r.validated /\ v.valid
          /\ r.result.kind = "deferred" => InNamespace(r.result.providerJobId)
          /\ r.validated /\ ~v.valid => r.result = Thrown(v.error)
          /\ r.result.kind # "deferred" => r.result.providerJobId = NoJob

\* one submit returned a handle, another was rejected for its second row
C7_Witness ==
  /\ \E k \in 1..Len(runs) :
       runs[k].input = ValidBatch /\ runs[k].result.kind = "deferred"
  /\ \E k \in 1..Len(runs) :
       /\ runs[k].input = BlankBatch
       /\ runs[k].result = Thrown(<<"Empty prompt found at row ", "2">>)

(***************************************************************************)
(* C8.  Submitting any request, valid or not, while the credential is not  *)
(* configured fails at once with the configuration error, before           *)
(* validation and without any network call, and returns no handle.         *)
(***************************************************************************)
C8_SubmitNeedsCredential ==
  CredentialMissing =>
    /\ net = NoNetwork
    /\ \A k \in 1..Len(runs) :
         /\ runs[k].result =
              Thrown(<<"Decart not configured - missing DECART_API_KEY">>)
         /\ ~runs[k].validated
         /\ runs[k].result.providerJobId = NoJob

\* with DECART_API_KEY empty, a valid and an invalid request were submitted
C8_Witness ==
  /\ apiKey = ""
  /\ \E k \in 1..Len(runs) : runs[k].input = ValidSingle
  /\ \E k \in 1..Len(runs) : runs[k].input = SquareSingle

(***************************************************************************)
(* C9 as claimed.  A missing credential blocks all operations: while the   *)
(* credential is not configured neither submit nor poll issues a           *)
(* source-video fetch or an upstream call, and no poll reports a           *)
(* 'succeeded' outcome.                                                    *)
(***************************************************************************)
C9_MissingCredentialBlocksAll ==
  CredentialMissing =>
    /\ net = NoNetwork
    /\ \A p \in PollIds : polls[p].ret.status # "succeeded"

(***************************************************************************)
(* C10 as claimed.  Job tokens are unique per submission: no two           *)
(* successful submits, even within one clock millisecond, return the same  *)
(* handle.                                                                 *)
(***************************************************************************)
C10_HandlesUnique ==
  \A j, k \in 1..Len(runs) :
    (/\ j < k
     /\ runs[j].result.kind = "deferred"
     /\ runs[k].result.kind = "deferred")
    => runs[j].result.providerJobId # runs[k].result.providerJobId


(***************************************************************************)
(* The validators.                                                         *)
(***************************************************************************)
SevenChecks == 1..7

\* request `input` violates check k of the single-request validator
CheckFails(k, input) ==
  CASE k = 1 -> input.modelCode # "DecartVideo"
    [] k = 2 -> ~HasFile(input.file) \/ input.file.signedUrl \in {Null, Undefined, ""}
    [] k = 3 -> HasFile(input.file)
                /\ input.file.size > maxFileSizeMB * BytesPerMB
    [] k = 4 -> HasFile(input.file)
                /\ LET name == input.file.originalName
                   IN \/ Len(name) = 0
                      \/ ToLowerCase(name[Len(name)])
                           \notin {"mp4", "avi", "mov", "mkv", "webm"}
    [] k = 5 -> Trim(input.prompt) = <<>>
    [] k = 6 -> StrLen(input.prompt) > maxPromptLength
    [] k = 7 -> input.orientation \notin {"landscape", "portrait"}

FailingChecks(input) == {k \in SevenChecks : CheckFails(k, input)}

Least(S) == CHOOSE k \in S : \A j \in S : k <= j

\* how the reason reported for check k begins
ReasonOf(k) ==
  CASE k = 1 -> "Invalid model code: "
    [] k = 2 -> "Video file with signed URL required"
    [] k = 3 -> "File too large ("
    [] k = 4 -> "Unsupported file type: "
    [] k = 5 -> "Prompt is required for video transformation"
    [] k = 6 -> "Prompt too long (max "
    [] k = 7 -> "Orientation must be either \"landscape\" or \"portrait\""

\* run k reached the validator with a single request
ValidatedSingle(k) == runs[k].validated /\ ~IsBatch(runs[k].input)

\* C11: a single request that reaches the validator is accepted iff it
\* violates none of the seven checks, and is otherwise rejected with the
\* reason of the first check it violates in the order model tag, signed URL,
\* size, extension, prompt non-empty after trimming, prompt length,
\* orientation.
C11_FirstFailingCheckReported ==
  \A k \in 1..Len(runs) :
    ValidatedSingle(k) =>
      IF FailingChecks(runs[k].input) = {}
      THEN runs[k].result.kind = "deferred"
      ELSE /\ runs[k].result.kind = "thrown"
           /\ runs[k].result.error[1]
                = ReasonOf(Least(FailingChecks(runs[k].input)))

\* a request with a bad extension, a blank prompt and an unknown orientation
\* was rejected for its extension
C11_Witness ==
  \E k \in 1..Len(runs) :
    /\ ValidatedSingle(k)
    /\ FailingChecks(runs[k].input) = {4, 5, 7}
    /\ runs[k].result.kind = "thrown"
    /\ runs[k].result.error[1] = "Unsupported file type: "

\* run k reached the prompt loop of the batch validator: the shared video
\* passed validateVideoInput and the prompt list is present and non-empty
ValidatedBatch(k) ==
  /\ runs[k].validated
  /\ IsBatch(runs[k].input)
  /\ FailingChecks(SingleInput(runs[k].input.modelCode,
                               runs[k].input.videoFile, <<Chunk("d", 5)>>,
                               runs[k].input.orientation)) = {}
  /\ runs[k].input.hasCsv
  /\ Len(runs[k].input.prompts) > 0

\* the 1-based rows of the prompts that are empty after trimming or too long
OffendingRows(prompts) ==
  {i \in 1..Len(prompts) :
     Trim(prompts[i]) = <<>> \/ StrLen(prompts[i]) > maxPromptLength}

\* C12: a batch request whose shared video passes the video checks and whose
\* prompt list is non-empty is rejected iff some prompt is empty after
\* trimming or longer than 1000 characters; the rejection names the 1-based
\* row of the first such prompt, and no network call has been made.
C12_FirstOffendingRowReported ==
  \A k \in 1..Len(runs) :
    ValidatedBatch(k) =>
      LET rows == OffendingRows(runs[k].input.prompts)
      IN /\ (runs[k].result.kind = "thrown") <=> (rows # {})
         /\ rows # {} =>
              /\ runs[k].result.error[1]
                   \in {"Empty prompt found at row ", "Prompt at row "}
              /\ runs[k].result.error[2] = ToString(Least(rows))
         /\ net = NoNetwork

\* prompts ['elf', '', 'elf'] were rejected at row 2
C12_Witness ==
  \E k \in 1..Len(runs) :
    /\ ValidatedBatch(k)
    /\ runs[k].input.prompts = <<PromptElf, <<>>, PromptElf>>
    /\ runs[k].result.error = <<"Empty prompt found at row ", "2">>
    /\ net = NoNetwork


(***************************************************************************)
(* The failures of the single-video pipeline.                              *)
(***************************************************************************)
SinglePoll(p) == Recognized(p) /\ ~IsBatch(polls[p].input)

\* the upstream call of single poll p returned a non-2xx status and its body
\* text was read
NonOkWithBody(p) ==
  /\ SinglePoll(p)
  /\ Len(polls[p].calls) = 1
  /\ polls[p].calls[1].outcome.kind = "response"
  /\ polls[p].calls[1].outcome.status \notin 200..299
  /\ Len(polls[p].body) = 1
  /\ polls[p].body[1].kind = "text"

\* `parts` occurs in `message`
Embeds(message, parts) ==
  \E k \in 0..(Len(message) - Len(parts)) :
    SubSeq(message, k + 1, k + Len(parts)) = parts

\* the two messages result() keeps for timeouts
TimeoutMessages ==
  {<<"Video processing timed out. Please try again with a smaller video.">>,
   <<"Video processing is taking longer than expected. Please try again.">>}

\* C13: in the single-video pipeline, whenever the upstream call returns a
\* non-2xx status s with body text b, the poll returns 'failed' with a
\* message that embeds both s and b.
C13_NonOkEmbedsStatusAndBody ==
  \A p \in PollIds :
    NonOkWithBody(p) =>
      /\ polls[p].ret.status = "failed"
      /\ Embeds(polls[p].ret.error,
                <<ToString(polls[p].calls[1].outcome.status)>>)
      /\ Embeds(polls[p].ret.error, polls[p].body[1].text)

\* the upstream call of single poll p was ended by its AbortSignal, while the
\* response or its body was awaited
UpstreamTimedOut(p) ==
  \/ \E k \in 1..Len(polls[p].calls) :
       polls[p].calls[k].outcome \in {Throw(TimeoutError), Throw(AbortError)}
  \/ \E k \in 1..Len(polls[p].body) :
       polls[p].body[k] \in {Throw(TimeoutError), Throw(AbortError)}

\* C14: a failed single poll carries a timeout message iff its upstream call
\* ended by timeout or abort, and a non-2xx upstream response is reported
\* with the API-error message, whatever its body text.
C14_TimeoutMessageIffTimedOut ==
  \A p \in PollIds :
    (SinglePoll(p) /\ Returned(p) /\ polls[p].ret.status = "failed") =>
      /\ (polls[p].ret.error \in TimeoutMessages) <=> UpstreamTimedOut(p)
      /\ NonOkWithBody(p) =>
           Embeds(polls[p].ret.error,
                  <<"Video processing failed: ", "Decart API error (">>)


(***************************************************************************)
(* The output of the single-video pipeline.                                *)
(***************************************************************************)
\* the source video of single poll p was fetched and the upstream call
\* returned a 2xx status
SingleUpstreamOk(p) ==
  /\ SinglePoll(p)
  /\ SourceLoaded(p)
  /\ Len(polls[p].calls) = 1
  /\ polls[p].calls[1].outcome.kind = "response"
  /\ polls[p].calls[1].outcome.status \in 200..299

\* the body of the upstream response of poll p was read
BodyRead(p) == Len(polls[p].body) = 1 /\ polls[p].body[1].kind = "blob"

\* 'succeeded' with format mp4, the request's prompt and orientation, and the
\* frame of the orientation
EchoesRequest(ret, input) ==
  /\ ret.status = "succeeded"
  /\ ret.output.format = "mp4"
  /\ ret.output.prompt = input.prompt
  /\ ret.output.orientation = input.orientation
  /\ input.orientation = "landscape" =>
       ret.output.width = 1280 /\ ret.output.height = 704
  /\ input.orientation = "portrait" =>
       ret.output.width = 704 /\ ret.output.height = 1280

\* two succeeded single polls of one orientation report one frame
SameFrame(p, q) ==
  (/\ SinglePoll(p) /\ SinglePoll(q)
   /\ polls[p].ret.status = "succeeded" /\ polls[q].ret.status = "succeeded"
   /\ polls[p].input.orientation = polls[q].input.orientation)
  => /\ polls[p].ret.output.width = polls[q].ret.output.width
     /\ polls[p].ret.output.height = polls[q].ret.output.height

\* C15 as stated: a returned single poll whose source fetch succeeded and
\* whose upstream call returned a success status is 'succeeded' with format
\* mp4, prompt and orientation echoed, 1280x704 for landscape and 704x1280
\* for portrait.
C15_SuccessStatusYieldsOutput ==
  /\ \A p \in PollIds :
       (SingleUpstreamOk(p) /\ Returned(p))
         => EchoesRequest(polls[p].ret, polls[p].input)
  /\ \A p, q \in PollIds : SameFrame(p, q)

\* C15: a single poll whose source fetch succeeded, whose upstream call
\* returned a success status and whose response body was read is 'succeeded'
\* with format mp4, prompt and orientation echoed, 1280x704 for landscape and
\* 704x1280 for portrait; when reading the body throws, the poll is 'failed'.
C15_BodyReadYieldsOutput ==
  /\ \A p \in PollIds :
       (SingleUpstreamOk(p) /\ Returned(p)) =>
         IF BodyRead(p)
         THEN EchoesRequest(polls[p].ret, polls[p].input)
         ELSE polls[p].ret.status = "failed"
  /\ \A p, q \in PollIds : SameFrame(p, q)

\* a portrait request came back 704x1280 with its prompt " robot"
C15_Witness ==
  \E p \in PollIds :
    /\ SingleUpstreamOk(p)
    /\ BodyRead(p)
    /\ polls[p].input = ValidSingle
    /\ polls[p].ret.status = "succeeded"
    /\ polls[p].ret.output.width = 704
    /\ polls[p].ret.output.height = 1280
    /\ polls[p].ret.output.prompt = PromptRobot


(***************************************************************************)
(* The arguments of getOutputDimensions.                                   *)
(***************************************************************************)
\* C16: in every execution of submit and poll, getOutputDimensions is called
\* only with 'landscape' or 'portrait'.
C16_LookupOnlyKnownOrientations ==
  \A p \in PollIds :
    \A k \in 1..Len(polls[p].looked) :
      polls[p].looked[k] \in {"landscape", "portrait"}


(***************************************************************************)
(* The order of the network calls of a batch poll.                         *)
(***************************************************************************)
\* the upstream calls invocation p has issued and not yet seen settle
InFlight(p) == polls[p].upCalls - Len(polls[p].calls)

\* the 0-based items before item i whose prompt is not empty after trimming
CalledBefore(p, i) ==
  {j \in 0..(i - 1) : Trim(polls[p].input.prompts[j + 1]) # <<>>}

\* C17: within a batch poll at most one upstream call is in flight, and while
\* the call of an item is in flight every earlier item has its result entry
\* recorded and every earlier call has settled.
C17_OneCallInFlight ==
  \A p \in PollIds :
    BatchPoll(p) =>
      /\ InFlight(p) \in {0, 1}
      /\ InFlight(p) = 1 =>
           /\ polls[p].pc = "batch_upstream"
           /\ Len(polls[p].results) = polls[p].i
           /\ {polls[p].calls[k].i : k \in 1..Len(polls[p].calls)}
                = CalledBefore(p, polls[p].i)
           /\ Len(polls[p].calls) = Cardinality(CalledBefore(p, polls[p].i))

\* the call of the second item is in flight after the first call failed and
\* its entry was recorded
C17_Witness ==
  \E p \in PollIds :
    /\ BatchPoll(p)
    /\ InFlight(p) = 1
    /\ polls[p].i = 1
    /\ Len(polls[p].calls) = 1
    /\ CallFailed(polls[p].calls[1])
    /\ Len(polls[p].results) = 1
    /\ ~polls[p].results[1].success


\* the source fetch of batch poll p can be issued: the video file has a URL
SourceFetchable(p) ==
  /\ HasFile(polls[p].input.videoFile)
  /\ polls[p].input.videoFile.signedUrl # Null

\* C18: a batch poll fetches the shared source video exactly once, whatever
\* the number of prompts and of failed items, and the fetched video has been
\* read before the first upstream call is issued.
C18_SourceFetchedOnce ==
  \A p \in PollIds :
    (BatchPoll(p) /\ SourceFetchable(p)) =>
      /\ polls[p].srcFetches = 1
      /\ polls[p].upCalls > 0 => SourceLoaded(p)
      /\ Len(polls[p].source) <= 2

\* a batch of two prompts returned after two upstream calls, one of them
\* failed, and one source fetch
C18_Witness ==
  \E p \in PollIds :
    /\ ReturnedBatchOutput(p)
    /\ polls[p].upCalls = 2
    /\ \E k \in 1..2 : CallFailed(polls[p].calls[k])
    /\ polls[p].srcFetches = 1


(***************************************************************************)
(* The number of upstream calls of a poll.                                 *)
(***************************************************************************)
\* the 0-based items of the request of batch poll p
Items(p) == 0..(Len(polls[p].input.prompts) - 1)

EmptyAfterTrim(p, i) == Trim(polls[p].input.prompts[i + 1]) = <<>>

\* C19: a single poll issues at most one upstream call; a batch poll issues
\* at most one per prompt and none for a prompt that is empty after trimming;
\* a batch poll that returned its BatchOutput has issued exactly one call per
\* prompt that is not empty after trimming and has recorded 'Empty prompt'
\* for each empty one, with an entry for every prompt.
C19_NoRetry ==
  \A p \in PollIds :
    IF ~Recognized(p) THEN TRUE
    ELSE IF ~IsBatch(polls[p].input) THEN polls[p].upCalls <= 1
    ELSE LET called == {i \in Items(p) : ~EmptyAfterTrim(p, i)}
         IN /\ polls[p].upCalls <= Cardinality(called)
            /\ \A k \in 1..Len(polls[p].calls) :
                 /\ polls[p].calls[k].i \in called
                 /\ \A l \in 1..(k - 1) :
                      polls[p].calls[l].i # polls[p].calls[k].i
            /\ ReturnedBatchOutput(p) =>
                 /\ polls[p].upCalls = Cardinality(called)
                 /\ Len(polls[p].calls) = Cardinality(called)
                 /\ Len(polls[p].ret.output.results)
                      = Len(polls[p].input.prompts)
                 /\ \A i \in Items(p) \ called :
                      /\ ~polls[p].ret.output.results[i + 1].success
                      /\ polls[p].ret.output.results[i + 1].error
                           = <<"Empty prompt">>

\* prompts ['elf', '  ', 'tiger '] returned after two upstream calls, the
\* first of which threw, with 'Empty prompt' recorded for the second prompt
\* and an entry for the third
C19_Witness ==
  \E p \in PollIds :
    /\ ReturnedBatchOutput(p)
    /\ polls[p].input = BlankBatch
    /\ polls[p].upCalls = 2
    /\ polls[p].calls[1].outcome.kind = "throw"
    /\ polls[p].ret.output.results[2].error = <<"Empty prompt">>
    /\ Len(polls[p].ret.output.results) = 3


(***************************************************************************)
(* Polling one job several times.                                          *)
(***************************************************************************)
\* the invocations of result() made so far
Started == {p \in DOMAIN polls : polls[p].pc # "idle"}

RECURSIVE UpstreamCallsOf(_)
\* the upstream calls the invocations of S have issued, added up
UpstreamCallsOf(S) ==
  IF S = {} THEN 0
  ELSE LET p == CHOOSE q \in S : TRUE
       IN polls[p].upCalls + UpstreamCallsOf(S \ {p})

\* the upstream calls a pipeline makes for `input` once its source is loaded
RoundOf(input) ==
  IF IsBatch(input)
  THEN Cardinality({k \in 1..Len(input.prompts) : Trim(input.prompts[k]) # <<>>})
  ELSE 1

\* invocation p ran its pipeline to the end: every call of its round settled
RanToEnd(p) ==
  /\ polls[p].pc = "done"
  /\ Len(polls[p].source) = 2
  /\ polls[p].source[2].kind = "response"

\* C20: k polls of one job with a recognized handle and a request, one after
\* or during another, cause k source fetches, one per poll, and every poll
\* that loads the source issues the upstream calls of its own round, whatever
\* the earlier polls returned.
C20_EveryPollRunsThePipeline ==
  /\ net.src = Cardinality(Started)
  /\ net.up = UpstreamCallsOf(Started)
  /\ \A p \in Started :
       /\ InNamespace(polls[p].jobId) /\ polls[p].input # NoInput
       /\ polls[p].srcFetches = 1
       /\ (Len(polls[p].source) = 2 /\ polls[p].source[2].kind = "response")
            => polls[p].upCalls >= 1
       /\ RanToEnd(p) => polls[p].upCalls = RoundOf(polls[p].input)

\* a poll returned 'succeeded'; a later poll of the same job fetched the
\* source again, made its own upstream call and returned 'failed'
C20_Witness ==
  /\ Cardinality(Started) = 2
  /\ net.src = 2
  /\ \E p, q \in Started :
       /\ p < q
       /\ polls[p].jobId = polls[q].jobId
       /\ polls[p].input = polls[q].input
       /\ polls[p].ret.status = "succeeded"
       /\ polls[q].ret.status = "failed"
       /\ polls[q].upCalls = 1
       /\ RanToEnd(q)


(***************************************************************************)
(* What a poll takes from its handle.                                      *)
(***************************************************************************)
\* invocations p and q were called with one request and have received the
\* same answers to their network calls so far
SameCourse(p, q) ==
  /\ polls[p].pc # "idle" /\ polls[q].pc # "idle"
  /\ polls[p].input = polls[q].input
  /\ polls[p].source = polls[q].source
  /\ polls[p].calls = polls[q].calls
  /\ polls[p].body = polls[q].body

\* the success flags and the failure reasons of the entries of a batch
Verdicts(results) ==
  [k \in 1..Len(results) |->
     IF results[k].success THEN <<"ok">> ELSE results[k].error]

\* invocations p and q are at the same point of the same pipeline, have
\* issued the same network calls and looked up the same orientation
SameConduct(p, q) ==
  /\ polls[p].pc = polls[q].pc
  /\ polls[p].srcFetches = polls[q].srcFetches
  /\ polls[p].upCalls = polls[q].upCalls
  /\ polls[p].looked = polls[q].looked
  /\ polls[p].i = polls[q].i
  /\ Verdicts(polls[p].results) = Verdicts(polls[q].results)
  /\ polls[p].ret.status = polls[q].ret.status
  /\ polls[p].ret.status = "failed" => polls[p].ret.error = polls[q].ret.error

\* the awaits of processBatch
BatchAwaits == {"batch_source", "batch_source_blob", "batch_upstream"}

\* the awaits of processSingleVideo
SingleAwaits ==
  {"single_source", "single_source_blob", "single_upstream", "single_text",
   "single_blob"}

\* C21: two polls with the same request whose handles agree on starting
\* with "decart_" run the same pipeline and issue the same network calls,
\* whatever the kind in the handle, whether or not run() returned it and
\* whether or not run() accepts the request; the pipeline is the one of the
\* request's kind tag.
C21_HandleMattersOnlyByPrefix ==
  /\ \A p, q \in DOMAIN polls :
       (SameCourse(p, q)
        /\ InNamespace(polls[p].jobId) = InNamespace(polls[q].jobId))
         => SameConduct(p, q)
  /\ \A p \in DOMAIN polls :
       (polls[p].pc # "idle" /\ InNamespace(polls[p].jobId)) =>
         /\ polls[p].looked = <<polls[p].input.orientation>>
         /\ polls[p].srcFetches = 1
         /\ polls[p].pc \in BatchAwaits => IsBatch(polls[p].input)
         /\ polls[p].pc \in SingleAwaits => ~IsBatch(polls[p].input)

\* the request with orientation 'square', which run() rejects, was polled as
\* "decart_batch_0_k7f3a" and as "decart_single_0_k7f3a", no run() ever
\* having returned either: both polls made the upstream call of the single
\* pipeline, got 500 and returned the same failure
C21_Witness ==
  /\ runs = <<>>
  /\ \E p, q \in DOMAIN polls :
       /\ polls[p].jobId = HandleOf(ValidBatch)
       /\ polls[q].jobId = HandleOf(ValidSingle)
       /\ polls[p].input = SquareSingle
       /\ SameCourse(p, q)
       /\ Len(polls[p].calls) = 1
       /\ polls[p].calls[1].outcome = Response(500)
       /\ polls[p].ret.status = "failed"
       /\ polls[q].ret = polls[p].ret
       /\ polls[q].upCalls = 1

==============================================================================
